---- MODULE Spec2Model ----
(***************************************************************************)
(* Model of the retouches service (src/main.py): a Flask application that  *)
(* receives a .docx over HTTP, gives every table of doc.tables black       *)
(* single-line borders, removes the <w:tblHeader/> mark of its rows and    *)
(* sends the document back.                                                *)
(*                                                                         *)
(* A document is a record of its body paragraphs and a flat sequence of    *)
(* tables in document order; the field "parent" of a table is 0 when the   *)
(* <w:tbl> element is a direct child of the body and otherwise the index   *)
(* of the table whose cell contains it.  A property block (tblPr, trPr) is *)
(* a record [presente, hijos]: whether the element exists and, if so, its  *)
(* children in order.                                                      *)
(***************************************************************************)
EXTENDS Integers, Sequences, FiniteSets, TLC

VARIABLES pc, request, response, invocado, anterior, reenvios

vars == <<pc, request, response, invocado, anterior, reenvios>>

(***************************************************************************)
(* Bounds of the explored inputs.                                          *)
(***************************************************************************)
MaxTables == 2
MaxRows == 2
MaxBordes == 2
MaxTrPr == 2
MaxReenvios == 1

(***************************************************************************)
(* Generic helpers on sequences.                                           *)
(***************************************************************************)
SeqsUpTo(S, n) == UNION {[1..k -> S] : k \in 0..n}

Range(s) == {s[i] : i \in DOMAIN s}

\* index of the first element of s with the given tag, 0 when there is
\* none (the position of the element lxml's find() returns).
Find(s, tag) ==
    IF \E i \in DOMAIN s : s[i].tag = tag
    THEN CHOOSE i \in DOMAIN s :
             s[i].tag = tag /\ \A j \in 1..(i-1) : s[j].tag # tag
    ELSE 0

\* s without its element at position i (lxml's remove(child)).
RemoveAt(s, i) == [j \in 1..(Len(s)-1) |-> IF j < i THEN s[j] ELSE s[j+1]]

\* s with its element at position i replaced by e.
ReplaceAt(s, i, e) == [j \in DOMAIN s |-> IF j = i THEN e ELSE s[j]]

(***************************************************************************)
(* DOCX utilities (src/main.py, "Utilidades DOCX").                        *)
(***************************************************************************)
\* str() of the small non-negative integers the program formats.
Str(n) == <<"0", "1", "2", "3", "4", "5", "6", "7", "8", "9">>[n + 1]

ancho_octavos_pt == 8
color_hex == "000000"

\* the six tags of the loop of aplicar_bordes_negros_tabla, in its order
TAGS == <<"top", "left", "bottom", "right", "insideH", "insideV">>

\* an absent element / a present element with the given children
Ausente == [presente |-> FALSE, hijos |-> <<>>]
Bloque(h) == [presente |-> TRUE, hijos |-> h]

\* a child of <w:tblPr>: its tag and its own children
Hijo(tag, h) == [tag |-> tag, hijos |-> h]

\* outcome of a call: a returned value, or an exception with its message
Ok(v) == [raised |-> FALSE, exc |-> "", valor |-> v]
Raise(msg, v) == [raised |-> TRUE, exc |-> msg, valor |-> v]

_crear_borde(tag, ancho, color) ==
    [tag |-> tag, val |-> "single", sz |-> Str(ancho), space |-> "0",
     color |-> color]

\* one iteration of the loop over the tags: find the first descriptor of
\* that tag, remove it if there is one, append a new descriptor.
PonerBorde(bordes, tag, ancho, color) ==
    LET previo == Find(bordes, tag)
        limpio == IF previo # 0 THEN RemoveAt(bordes, previo) ELSE bordes
    IN  Append(limpio, _crear_borde(tag, ancho, color))

RECURSIVE PonerBordes(_, _, _, _)
PonerBordes(bordes, k, ancho, color) ==
    IF k > Len(TAGS) THEN bordes
    ELSE PonerBordes(PonerBorde(bordes, TAGS[k], ancho, color), k + 1,
                     ancho, color)

\* tbl.tblPr: the accessor of the required child; it does not create the
\* element, and with no <w:tblPr> there is nothing to call find() on.
tblPr_de(table) ==
    IF table.tblPr.presente
    THEN Ok(table.tblPr)
    ELSE Raise("required <w:tblPr> child element not present", table.tblPr)

aplicar_bordes_negros_tabla(table, ancho, color) ==
    LET acceso == tblPr_de(table) IN
    IF acceso.raised THEN Raise(acceso.exc, table)
    ELSE
      LET hijos0 == table.tblPr.hijos
          hallado == Find(hijos0, "tblBorders")
          hijos1 == IF hallado = 0
                    THEN Append(hijos0, Hijo("tblBorders", <<>>))
                    ELSE hijos0
          pos == IF hallado = 0 THEN Len(hijos1) ELSE hallado
          nuevos == PonerBordes(hijos1[pos].hijos, 1, ancho, color)
      IN  Ok([table EXCEPT !.tblPr =
                 Bloque(ReplaceAt(hijos1, pos, Hijo("tblBorders", nuevos)))])

\* as QuitarTblHeader, but every child of the trPr is removed
QuitarTodo(row) ==
    IF ~row.trPr.presente THEN row ELSE [row EXCEPT !.trPr.hijos = <<>>]

\* the body of the loop over table.rows
QuitarTblHeader(row) ==
    IF ~row.trPr.presente THEN row
    ELSE [row EXCEPT !.trPr.hijos =
             SelectSeq(row.trPr.hijos, LAMBDA child : child # "tblHeader")]

eliminar_repeticion_fila_encabezado(table) ==
    [table EXCEPT !.rows = [i \in DOMAIN table.rows |->
                               QuitarTblHeader(table.rows[i])]]

(***************************************************************************)
(* Byte buffers: the empty buffer, bytes that are no zip container, and    *)
(* the serialization of a document.                                        *)
(***************************************************************************)
SinDoc == [parrafos |-> <<>>, tables |-> <<>>]
Vacio == [kind |-> "vacio", doc |-> SinDoc]
Basura == [kind |-> "basura", doc |-> SinDoc]

\* doc.save(salida): the buffer holding the serialized document
Guardar(doc) == [kind |-> "docx", doc |-> doc]

\* Document(stream_entrada): parse the buffer, or raise
Document(stream) ==
    IF stream.kind = "docx" THEN Ok(stream.doc)
    ELSE Raise("File is not a zip file", SinDoc)

\* doc.tables: the tables that are direct children of the body, in order
RECURSIVE DocTablesDesde(_, _)
DocTablesDesde(tables, i) ==
    IF i > Len(tables) THEN <<>>
    ELSE (IF tables[i].parent = 0 THEN <<i>> ELSE <<>>)
         \o DocTablesDesde(tables, i + 1)

DocTables(doc) == DocTablesDesde(doc.tables, 1)

\* as ProcesarTabla, but the six descriptors are elements shared by all
\* the tables: appending them to the table at index i takes them away from
\* the borders block of every other table
ProcesarTablaCompartida(tables, i) ==
    LET r == aplicar_bordes_negros_tabla(tables[i], ancho_octavos_pt, color_hex)
        SinSeis(t) ==
            [t EXCEPT !.tblPr.hijos =
                [c \in DOMAIN @ |->
                    IF @[c].tag = "tblBorders"
                    THEN Hijo("tblBorders",
                              SelectSeq(@[c].hijos,
                                        LAMBDA d : d.val # "single"))
                    ELSE @[c]]]
    IN  IF r.raised THEN Raise(r.exc, tables)
        ELSE Ok([j \in DOMAIN tables |->
                    IF j = i
                    THEN eliminar_repeticion_fila_encabezado(r.valor)
                    ELSE SinSeis(tables[j])])

\* the body of the loop of procesar_docx on the table at index i
ProcesarTabla(tables, i) ==
    LET r == aplicar_bordes_negros_tabla(tables[i], ancho_octavos_pt, color_hex)
    IN  IF r.raised THEN Raise(r.exc, tables)
        ELSE Ok(ReplaceAt(tables, i,
                          eliminar_repeticion_fila_encabezado(r.valor)))

\* the loop of procesar_docx, visiting the tables in the given order; the
\* first exception ends it.
RECURSIVE ProcesarTablas(_, _, _)
ProcesarTablas(tables, orden, k) ==
    IF k > Len(orden) THEN Ok(tables)
    ELSE LET r == ProcesarTabla(tables, orden[k]) IN
         IF r.raised THEN r ELSE ProcesarTablas(r.valor, orden, k + 1)

\* as procesar_docx, but a parse failure is swallowed and the input buffer
\* is returned as it came
procesar_docx_traga(stream_entrada) ==
    LET parsed == Document(stream_entrada) IN
    IF parsed.raised THEN Ok(stream_entrada)
    ELSE LET doc == parsed.valor
             r == ProcesarTablas(doc.tables, DocTables(doc), 1)
         IN  IF r.raised THEN Raise(r.exc, Vacio)
             ELSE Ok(Guardar([doc EXCEPT !.tables = r.valor]))

procesar_docx(stream_entrada) ==
    LET parsed == Document(stream_entrada) IN
    IF parsed.raised THEN Raise(parsed.exc, Vacio)
    ELSE LET doc == parsed.valor
             r == ProcesarTablas(doc.tables, DocTables(doc), 1)
         IN  IF r.raised THEN Raise(r.exc, Vacio)
             ELSE Ok(Guardar([doc EXCEPT !.tables = r.valor]))

(***************************************************************************)
(* Endpoints (src/main.py, "Endpoints").                                   *)
(***************************************************************************)
\* 'input.docx', the default of filename_in; a file name is the sequence
\* of its characters, with the runs of letters that hold no dot kept whole
InputDocx == <<"input", ".", "docx">>
Sufijo == <<"_procesado", ".", "docx">>
Mimetype ==
    "application/vnd.openxmlformats-officedocument.wordprocessingml.document"

\* filename_in.rsplit('.', 1)[0] if '.' in filename_in else filename_in
Base(filename_in) ==
    IF \E i \in DOMAIN filename_in : filename_in[i] = "."
    THEN LET ultimo == CHOOSE i \in DOMAIN filename_in :
                           /\ filename_in[i] = "."
                           /\ \A j \in (i+1)..Len(filename_in) :
                                  filename_in[j] # "."
         IN  SubSeq(filename_in, 1, ultimo - 1)
    ELSE filename_in

SinRequest ==
    [ruta |-> "", hasFile |-> FALSE, filename |-> <<>>, file |-> Vacio,
     data |-> Vacio]

SinResponse ==
    [status |-> 0, tipo |-> "", error |-> "", body |-> Vacio,
     download_name |-> <<>>, mimetype |-> "", timestamp |-> <<>>]

\* jsonify({"error": msg}), status
JsonError(msg, status) ==
    [SinResponse EXCEPT !.status = status, !.tipo = "json", !.error = msg,
                        !.mimetype = "application/json"]

\* send_file(salida, as_attachment=True, download_name=..., mimetype=...)
SendFile(salida, filename_out) ==
    [SinResponse EXCEPT !.status = 200, !.tipo = "file", !.body = salida,
                        !.download_name = filename_out,
                        !.mimetype = Mimetype]

\* the bytes process() reads: the 'file' field when the form has one,
\* otherwise the raw body
InBytes(req) == IF req.hasFile THEN req.file ELSE req.data

\* the handler of POST /process: the response, and whether procesar_docx
\* was called; an exception of procesar_docx reaches the except clause
process(req) ==
    LET filename_in == IF req.hasFile /\ req.filename # <<>>
                       THEN req.filename ELSE InputDocx
        in_bytes == InBytes(req)
    IN  IF ~req.hasFile /\ in_bytes.kind = "vacio"
        THEN [response |-> JsonError("No se recibio archivo", 400),
              invocado |-> FALSE]
        ELSE LET salida == procesar_docx(in_bytes) IN
             IF salida.raised
             THEN [response |-> JsonError(salida.exc, 500),
                   invocado |-> TRUE]
             ELSE [response |->
                       SendFile(salida.valor, Base(filename_in) \o Sufijo),
                   invocado |-> TRUE]

\* the handler of GET /health at the instant t
health(t) ==
    [SinResponse EXCEPT !.status = 200, !.tipo = "json",
                        !.mimetype = "application/json",
                        !.timestamp = <<Str(t), "Z">>]

(***************************************************************************)
(* The inputs a client may send.                                           *)
(***************************************************************************)
\* a border descriptor as an authored document holds it
Viejo(tag) ==
    [tag |-> tag, val |-> "double", sz |-> "4", space |-> "0",
     color |-> "FF0000"]

TblPrs(descs, nb) ==
    {Ausente} \cup
    {Bloque(o \o b) :
        o \in {<<>>, <<Hijo("tblStyle", <<>>)>>},
        b \in {<<>>} \cup {<<Hijo("tblBorders", bs)>> :
                              bs \in SeqsUpTo(descs, nb)}}

TrPrs(flags, nc) == {Ausente} \cup {Bloque(h) : h \in SeqsUpTo(flags, nc)}

Rows(flags, nr, nc) ==
    UNION {{[i \in 1..k |-> [trPr |-> f[i], celdas |-> i]] :
               f \in [1..k -> TrPrs(flags, nc)]} : k \in 0..nr}

Tablas(descs, nb, flags, nr, nc) ==
    {[tblPr |-> p, rows |-> r, parent |-> 0] :
        p \in TblPrs(descs, nb), r \in Rows(flags, nr, nc)}

\* the ways the tables of a document nest: a table is in the body (0) or
\* in a cell of an earlier table
Nidos(k) == {f \in [1..k -> 0..k] : \A i \in 1..k : f[i] < i}

\* the document of the tables ts nested as n says
Doc(ts, n) ==
    [parrafos |-> <<"p">>,
     tables |-> [i \in DOMAIN ts |-> [ts[i] EXCEPT !.parent = n[i]]]]

\* the small tables of the documents of several tables
TablasDoc == Tablas({Viejo("top")}, 1, {"tblHeader", "cantSplit"}, 1, 1)

\* the tables of the documents of one table: every border and row state
\* of the bounds
TablasUna ==
    Tablas({Viejo("top"), Viejo("insideV")}, MaxBordes,
           {"tblHeader", "cantSplit"}, MaxRows, MaxTrPr)

Filenames == {<<>>, <<"a", ".", "b", ".", "docx">>}

\* the two ways of sending the bytes: a 'file' form field with its file
\* name, or the raw body
Formas(filenames) ==
    {[hasFile |-> TRUE, filename |-> fn] : fn \in filenames}
    \cup {[hasFile |-> FALSE, filename |-> <<>>]}

Peticion(forma, bytes) ==
    [ruta |-> "/process", hasFile |-> forma.hasFile,
     filename |-> forma.filename,
     file |-> IF forma.hasFile THEN bytes ELSE Vacio,
     data |-> IF forma.hasFile THEN Vacio ELSE bytes]

Tiempos == {0, 1}

(***************************************************************************)
(* The service: one request at a time, each handled to its response.       *)
(***************************************************************************)
SinAnterior == [request |-> SinRequest, response |-> SinResponse]

Init ==
    /\ pc = "idle"
    /\ request = SinRequest
    /\ response = SinResponse
    /\ invocado = FALSE
    /\ anterior = SinAnterior
    /\ reenvios = 0

\* a client posts req to /process and the handler answers
Post(req) ==
    /\ pc = "idle"
    /\ pc' = "respondido"
    /\ request' = req
    /\ LET r == process(req)
       IN  response' = r.response /\ invocado' = r.invocado
    /\ anterior' = SinAnterior
    /\ reenvios' = 0

\* the client posts the document it was sent back as the 'file' field of
\* a new request
Reenviar ==
    /\ pc = "respondido"
    /\ response.status = 200
    /\ response.tipo = "file"
    /\ reenvios < MaxReenvios
    /\ LET req == [ruta |-> "/process", hasFile |-> TRUE,
                   filename |-> response.download_name,
                   file |-> response.body, data |-> Vacio]
           r == process(req)
       IN  /\ request' = req
           /\ response' = r.response
           /\ invocado' = r.invocado
    /\ anterior' = [request |-> request, response |-> response]
    /\ reenvios' = reenvios + 1
    /\ pc' = "respondido"

\* a client gets /health
Health(t) ==
    /\ pc = "idle"
    /\ pc' = "respondido"
    /\ request' = [SinRequest EXCEPT !.ruta = "/health"]
    /\ response' = health(t)
    /\ invocado' = FALSE
    /\ anterior' = SinAnterior
    /\ reenvios' = 0

\* the exchange is over; nothing of it is kept
Cerrar ==
    /\ pc = "respondido"
    /\ pc' = "idle"
    /\ request' = SinRequest
    /\ response' = SinResponse
    /\ invocado' = FALSE
    /\ anterior' = SinAnterior
    /\ reenvios' = 0

\* a client posts bytes that are no document
PostBytes(formas) ==
    /\ pc = "idle"
    /\ \E f \in formas, b \in {Vacio, Basura} : Post(Peticion(f, b))

\* a client posts, as the raw body, a document of up to MaxTables small
\* tables
PostDoc ==
    /\ pc = "idle"
    /\ \E k \in 0..MaxTables :
           \E ts \in [1..k -> TablasDoc], n \in Nidos(k) :
               Post(Peticion([hasFile |-> FALSE, filename |-> <<>>],
                             Guardar(Doc(ts, n))))

\* a client posts a document of one table
PostTabla ==
    /\ pc = "idle"
    /\ \E f \in Formas(Filenames), t \in TablasUna :
           Post(Peticion(f, Guardar(Doc(<<t>>, <<0>>))))

Next ==
    \/ PostBytes(Formas({<<>>}))
    \/ PostDoc
    \/ Reenviar
    \/ \E t \in Tiempos : Health(t)
    \/ Cerrar

Spec == Init /\ [][Next]_vars

NextTabla ==
    \/ PostBytes(Formas(Filenames))
    \/ PostTabla
    \/ Reenviar
    \/ \E t \in Tiempos : Health(t)
    \/ Cerrar

SpecTabla == Init /\ [][NextTabla]_vars

(***************************************************************************)
(* Vocabulary of the properties.                                           *)
(***************************************************************************)
\* the border descriptor the specification fixes for an edge
Fijo(tag) ==
    [tag |-> tag, val |-> "single", sz |-> "8", space |-> "0",
     color |-> "000000"]

\* the descriptors of the borders block of a table (none without a block)
BordesDe(t) ==
    LET i == Find(t.tblPr.hijos, "tblBorders")
    IN  IF i = 0 THEN <<>> ELSE t.tblPr.hijos[i].hijos

TieneBloqueBordes(t) ==
    /\ t.tblPr.presente
    /\ \E i \in DOMAIN t.tblPr.hijos : t.tblPr.hijos[i].tag = "tblBorders"

\* how many elements of s equal e
Cuenta(s, e) == Cardinality({i \in DOMAIN s : s[i] = e})

\* how many elements of s have the given tag
CuentaTag(s, tag) == Cardinality({i \in DOMAIN s : s[i].tag = tag})

\* the six edges of t hold the fixed descriptor
SeisFijos(t) ==
    /\ TieneBloqueBordes(t)
    /\ \A k \in DOMAIN TAGS :
           \E i \in DOMAIN BordesDe(t) : BordesDe(t)[i] = Fijo(TAGS[k])

SinMarca(t) ==
    \A r \in DOMAIN t.rows :
        \A c \in DOMAIN t.rows[r].trPr.hijos :
            t.rows[r].trPr.hijos[c] # "tblHeader"

EsProcess == pc = "respondido" /\ request.ruta = "/process"

\* procesar_docx returned and its buffer was sent
Exito == EsProcess /\ response.status = 200 /\ response.tipo = "file"

Entrada == InBytes(request).doc
Salida == response.body.doc

(***************************************************************************)
(* Properties.                                                             *)
(***************************************************************************)
\* C1: after procesar_docx returns, every table of the output document
\* holds, for each of the six edges, a descriptor single / 8 / 0 / 000000.
C1_TodasLasTablasConBordes ==
    Exito => \A i \in DOMAIN Salida.tables : SeisFijos(Salida.tables[i])

\* C2: after procesar_docx returns, no row of any table of the output
\* carries a tblHeader mark, and a row that had no trPr still has none.
C2_NingunaFilaMarcada ==
    Exito =>
        \A i \in DOMAIN Salida.tables :
            /\ SinMarca(Salida.tables[i])
            /\ \A r \in DOMAIN Salida.tables[i].rows :
                   ~Entrada.tables[i].rows[r].trPr.presente
                       => ~Salida.tables[i].rows[r].trPr.presente

\* C3: after processing, the borders block of every processed table holds
\* exactly one descriptor per named edge, each with the fixed values, and
\* six descriptors in all.
C3_ExactamenteSeis ==
    Exito =>
        \A i \in DOMAIN Salida.tables :
            Salida.tables[i].parent = 0 =>
                LET b == BordesDe(Salida.tables[i]) IN
                /\ Len(b) = 6
                /\ \A k \in DOMAIN TAGS :
                       /\ CuentaTag(b, TAGS[k]) = 1
                       /\ Cuenta(b, Fijo(TAGS[k])) = 1

\* what idempotence compares: the border descriptors of each table and the
\* tblHeader marks of each row
BordesYMarcas(doc) ==
    [i \in DOMAIN doc.tables |->
        [bordes |-> BordesDe(doc.tables[i]),
         marcas |-> [r \in DOMAIN doc.tables[i].rows |->
                        Cuenta(doc.tables[i].rows[r].trPr.hijos,
                               "tblHeader")]]]

\* C4: posting the output of the transform again gives a document whose
\* border descriptors and tblHeader marks are those of the first output.
C4_Idempotente ==
    (Exito /\ reenvios > 0) =>
        BordesYMarcas(Salida) = BordesYMarcas(anterior.response.body.doc)

\* C5: a POST /process whose payload is empty, as raw body or as the
\* content of the 'file' field, is answered 400 with an error, and the
\* document processor is not called.
C5_VacioEs400 ==
    (EsProcess /\ InBytes(request).kind = "vacio") =>
        /\ response.status = 400
        /\ response.tipo = "json"
        /\ response.error # ""
        /\ ~invocado

\* C8: after procesar_docx returns, a table nested in a cell of another
\* table also has the six fixed descriptors and no row with a tblHeader
\* mark.
C8_TablasAnidadas ==
    Exito =>
        \A i \in DOMAIN Salida.tables :
            Salida.tables[i].parent # 0 =>
                SeisFijos(Salida.tables[i]) /\ SinMarca(Salida.tables[i])

\* C9: aplicar_bordes_negros_tabla raises on no table, with or without a
\* tblPr and with or without a borders block, and leaves the six fixed
\* descriptors.
C9_BordesSinError ==
    (EsProcess /\ InBytes(request).kind = "docx") =>
        \A i \in DOMAIN Entrada.tables :
            LET r == aplicar_bordes_negros_tabla(Entrada.tables[i],
                                                 ancho_octavos_pt, color_hex)
            IN  ~r.raised /\ SeisFijos(r.valor)

\* C6: a POST /process with non-empty bytes that are no document container
\* is answered 500 with the message of the parse failure, which
\* procesar_docx raises to process; and every exception of procesar_docx
\* ends in a 500 with its message, never in a 200 or in document bytes.
C6_NoValidoEs500 ==
    EsProcess =>
        LET b == InBytes(request)
            r == procesar_docx(b)
        IN  /\ b.kind = "basura" =>
                   /\ invocado
                   /\ r.raised
                   /\ r.exc = Document(b).exc
                   /\ response.status = 500
                   /\ response.error = Document(b).exc
            /\ (invocado /\ r.raised) =>
                   /\ response.status = 500
                   /\ response.tipo = "json"
                   /\ response.error = r.exc
                   /\ response.error # ""
                   /\ response.body = Vacio

C6_Testigo ==
    /\ EsProcess
    /\ InBytes(request).kind = "basura"
    /\ invocado
    /\ response.status = 500
    /\ response.error = "File is not a zip file"

\* what the transform must leave alone: the paragraphs, the tables and
\* their nesting, the children of each tblPr other than the borders block,
\* the descriptors of a borders block for other edges than the six, the
\* rows and their cells, the presence of each trPr and its children other
\* than tblHeader
Marco(doc) ==
    [parrafos |-> doc.parrafos,
     tables |->
        [i \in DOMAIN doc.tables |->
            LET t == doc.tables[i] IN
            [parent |-> t.parent,
             tblPr |-> t.tblPr.presente,
             otros |-> SelectSeq(t.tblPr.hijos,
                                 LAMBDA c : c.tag # "tblBorders"),
             otrosBordes |-> SelectSeq(BordesDe(t),
                                 LAMBDA d : \A k \in DOMAIN TAGS :
                                                d.tag # TAGS[k]),
             rows |-> [r \in DOMAIN t.rows |->
                          [celdas |-> t.rows[r].celdas,
                           trPr |-> t.rows[r].trPr.presente,
                           otros |-> SelectSeq(t.rows[r].trPr.hijos,
                                         LAMBDA c : c # "tblHeader")]]]]]

\* C7: the output differs from the input in nothing but the six named
\* border descriptors of the tables and the tblHeader marks of the rows;
\* a document without tables comes back as it was.
C7_SoloBordesYMarcas ==
    Exito =>
        /\ Marco(Salida) = Marco(Entrada)
        /\ Len(Salida.tables) = Len(Entrada.tables)
        /\ Entrada.tables = <<>> => Salida = Entrada

C7_Testigo ==
    /\ Exito
    /\ Salida # Entrada
    /\ \E i, j \in DOMAIN Entrada.tables :
           /\ i # j
           /\ Entrada.tables[i].tblPr.hijos # <<>>
           /\ Entrada.tables[i].tblPr.hijos[1].tag = "tblStyle"
           /\ Entrada.tables[i].rows # <<>>
           /\ Entrada.tables[i].rows[1].trPr.hijos = <<"cantSplit">>
           /\ Entrada.tables[j].parent = 0
           /\ Entrada.tables[j].rows # <<>>
           /\ Entrada.tables[j].rows[1].trPr.hijos = <<"tblHeader">>
           /\ Salida.tables[j].rows[1].trPr.hijos = <<>>

\* the orders in which the tables of orden can be visited
Ordenes(orden) ==
    {p \in [DOMAIN orden -> Range(orden)] :
        \A i, j \in DOMAIN orden : p[i] = p[j] => i = j}

\* two calls end alike: both raise the same exception, or both return the
\* same value
Igual(r1, r2) ==
    /\ r1.raised = r2.raised
    /\ r1.exc = r2.exc
    /\ ~r1.raised => r1.valor = r2.valor

\* borders, then header marks / header marks, then borders
BordesLuegoMarcas(t) ==
    LET a == aplicar_bordes_negros_tabla(t, ancho_octavos_pt, color_hex) IN
    IF a.raised THEN a ELSE Ok(eliminar_repeticion_fila_encabezado(a.valor))

MarcasLuegoBordes(t) ==
    aplicar_bordes_negros_tabla(eliminar_repeticion_fila_encabezado(t),
                                ancho_octavos_pt, color_hex)

\* C10: visiting the tables of the document in any order ends as visiting
\* them in document order does, and that is the document sent back;
\* processing a table changes no other table; and on each table borders
\* then header marks ends as header marks then borders.
C10_OrdenIndiferente ==
    (EsProcess /\ InBytes(request).kind = "docx") =>
        LET ts == Entrada.tables
            orden == DocTables(Entrada)
            ref == ProcesarTablas(ts, orden, 1)
        IN  /\ \A p \in Ordenes(orden) :
                   Igual(ProcesarTablas(ts, p, 1), ref)
            /\ \A i \in Range(orden) :
                   LET r == ProcesarTabla(ts, i) IN
                   ~r.raised =>
                       \A j \in DOMAIN ts : j # i => r.valor[j] = ts[j]
            /\ \A i \in DOMAIN ts :
                   Igual(BordesLuegoMarcas(ts[i]), MarcasLuegoBordes(ts[i]))
            /\ Exito => ~ref.raised /\ Salida.tables = ref.valor

C10_Testigo ==
    /\ Exito
    /\ Len(DocTables(Entrada)) >= 2
    /\ \A i \in DOMAIN Entrada.tables : Salida.tables[i] # Entrada.tables[i]

====
